---- MODULE Spec2Model ----
(***************************************************************************)
(* A model of navidrome's JSON:API helpers (server/api/helpers.go) and of  *)
(* the singleton providers of the wire injectors (cmd/wire_injectors.go).  *)
(*                                                                         *)
(* Go strings are sequences of one-character strings.  A pointer (and an   *)
(* error value) is a sequence of at most one element: Nil, or Ptr(v).      *)
(* Each group of operations has its own specification:                     *)
(*   SpecSort   toSortParams                                               *)
(*   SpecQuery  toQueryOptions                                             *)
(*   SpecPage   buildPaginationLinksAndMeta                                *)
(*   SpecErr    apiErrorHandler                                            *)
(*   SpecWire   GetScanner / GetBroker / GetScheduler                      *)
(***************************************************************************)
EXTENDS Integers, Sequences, FiniteSets, TLC

VARIABLES
    sortArg,      \* toSortParams: the *string argument (Nil or a string)
    sortRet,      \* toSortParams: the returned (string, error) pair
    qParams,      \* toQueryOptions: the GetTracksParams argument
    qRet,         \* toQueryOptions: the returned QueryOptions, or a panic
    pgArgs,       \* buildPaginationLinksAndMeta: totalItems, params, resourceName
    pgRet,        \* buildPaginationLinksAndMeta: the returned links and meta
    errArg,       \* apiErrorHandler: the error (its Unwrap chain)
    w,            \* apiErrorHandler: the http.ResponseWriter
    once,         \* onceScanner, onceBroker, onceScheduler: done flag and mutex
    instance,     \* scannerInstance, brokerInstance, schedulerInstance
    created,      \* how many times each create function has been run
    stack,        \* each goroutine's call stack of Get functions
    returned,     \* each goroutine's values returned by finished Get calls
    calls         \* how many calls of each Get function the goroutines have made

vars == <<sortArg, sortRet, qParams, qRet, pgArgs, pgRet, errArg, w,
          once, instance, created, stack, returned, calls>>

sortVars  == <<sortArg, sortRet>>
queryVars == <<qParams, qRet>>
pageVars  == <<pgArgs, pgRet>>
errVars   == <<errArg, w>>
wireVars  == <<once, instance, created, stack, returned, calls>>
idleVars  == <<sortVars, queryVars, pageVars, errVars>>

Nil      == <<>>
Ptr(v)   == <<v>>
Deref(p) == p[1]

\* a group of variables no operation of the specification at hand touches
IdleSort  == sortArg = Nil /\ sortRet = Nil
IdleQuery == qParams = Nil /\ qRet = Nil
IdlePage  == pgArgs = Nil /\ pgRet = Nil
IdleErr   == errArg = Nil /\ w = Nil
IdleWire  ==
    /\ once = Nil /\ instance = Nil /\ created = Nil
    /\ stack = Nil /\ returned = Nil /\ calls = Nil

(***************************************************************************)
(* Bounds of the model.                                                    *)
(***************************************************************************)
MaxSortLen    == 4
MaxTokenLen   == 3
MaxFilterVals == 2
MaxItems      == 6
MaxLimit      == 3
MaxOffset     == 6
MaxLinkVals   == 2
MaxWrap       == 4
NumGoroutines == 3
MaxCalls      == 3

(***************************************************************************)
(* Strings.                                                                *)
(***************************************************************************)
RECURSIVE StringsUpTo(_, _)
StringsUpTo(alphabet, n) ==
    IF n = 0 THEN {<<>>}
    ELSE LET shorter == StringsUpTo(alphabet, n - 1)
         IN  shorter \cup {Append(s, c) : s \in shorter, c \in alphabet}

\* unicode.IsSpace, on the characters the model draws from
IsSpace(c) == c \in {" ", "\t"}

RECURSIVE TrimLeft(_)
TrimLeft(s) ==
    IF s # <<>> /\ IsSpace(Head(s)) THEN TrimLeft(Tail(s)) ELSE s

RECURSIVE TrimRight(_)
TrimRight(s) ==
    IF s # <<>> /\ IsSpace(s[Len(s)])
    THEN TrimRight(SubSeq(s, 1, Len(s) - 1))
    ELSE s

\* strings.TrimSpace
TrimSpace(s) == TrimRight(TrimLeft(s))

\* strings.Split(s, sep) for a one-character sep: the substrings between the
\* separators, n separators giving n + 1 substrings
RECURSIVE SplitFrom(_, _, _)
SplitFrom(s, sep, cur) ==
    IF s = <<>> THEN <<cur>>
    ELSE IF Head(s) = sep THEN <<cur>> \o SplitFrom(Tail(s), sep, <<>>)
    ELSE SplitFrom(Tail(s), sep, Append(cur, Head(s)))

Split(s, sep) == SplitFrom(s, sep, <<>>)

\* strings.Join(elems, sep)
RECURSIVE Join(_, _)
Join(elems, sep) ==
    IF elems = <<>> THEN <<>>
    ELSE IF Len(elems) = 1 THEN elems[1]
    ELSE elems[1] \o sep \o Join(Tail(elems), sep)

\* strings.HasPrefix(s, "-")
HasDashPrefix(s) == s # <<>> /\ Head(s) = "-"

(***************************************************************************)
(* toSortParams                                                            *)
(***************************************************************************)
LowerCase == {"a", "b", "c", "d", "e", "f", "g", "h", "i", "j", "k", "l", "m",
              "n", "o", "p", "q", "r", "s", "t", "u", "v", "w", "x", "y", "z"}
UpperCase == {"A", "B", "C", "D", "E", "F", "G", "H", "I", "J", "K", "L", "M",
              "N", "O", "P", "Q", "R", "S", "T", "U", "V", "W", "X", "Y", "Z"}
Digits    == {"0", "1", "2", "3", "4", "5", "6", "7", "8", "9"}

\* validSortPattern.Match on a one-character string: [a-zA-Z0-9_\-]
validSortPattern(c) == c \in LowerCase \cup UpperCase \cup Digits \cup {"_", "-"}

\* errors.New("invalid sort parameter: " + trimmedCol)
InvalidSortError(trimmedCol) ==
    [msg |-> "invalid sort parameter: ", token |-> trimmedCol]

\* fmt.Sprintf("%s desc", colName) and fmt.Sprintf("%s asc", trimmedCol)
SprintfDesc(colName) == colName \o <<" ", "d", "e", "s", "c">>
SprintfAsc(col)      == col \o <<" ", "a", "s", "c">>

\* a variant that leaves the text after the '-' as it is
ColNameUntrimmed(trimmedCol) == Tail(trimmedCol)
\* the column a descending token names: strings.TrimSpace(trimmedCol[1:])
ColName(trimmedCol) == TrimSpace(Tail(trimmedCol))

\* a variant that matches the unanchored pattern against the whole token
PrefixValidAnywhere(trimmedCol) ==
    \E i \in 1..Len(trimmedCol) : validSortPattern(trimmedCol[i])
\* the check of one token's prefix: validSortPattern on trimmedCol[0]
PrefixValid(trimmedCol) == validSortPattern(trimmedCol[1])

\* the loop over inputCols, resultCols being what was appended so far
RECURSIVE SortLoop(_, _)
SortLoop(inputCols, resultCols) ==
    IF inputCols = <<>> THEN [cols |-> Join(resultCols, <<",">>), err |-> Nil]
    ELSE LET trimmedCol == TrimSpace(Head(inputCols))
         IN  IF trimmedCol = <<>> THEN SortLoop(Tail(inputCols), resultCols)
             ELSE IF ~PrefixValid(trimmedCol)
             THEN [cols |-> <<>>, err |-> Ptr(InvalidSortError(trimmedCol))]
             ELSE IF HasDashPrefix(trimmedCol)
             THEN SortLoop(Tail(inputCols),
                           Append(resultCols, SprintfDesc(ColName(trimmedCol))))
             ELSE SortLoop(Tail(inputCols),
                           Append(resultCols, SprintfAsc(trimmedCol)))

toSortParams(sort) ==
    IF sort = Nil \/ Deref(sort) = <<>> THEN [cols |-> <<>>, err |-> Nil]
    ELSE SortLoop(Split(Deref(sort), ","), <<>>)

\* the sort strings the model passes in: every string over SortAlphabet up to
\* MaxSortLen characters, three longer ones, and no string
SortAlphabet == {"a", "-", ",", " ", "$"}
YearTitle == <<"-", "y", "e", "a", "r", ",", "t", "i", "t", "l", "e">>
BadTitle  == <<"$", "b", "a", "d", ",", "t", "i", "t", "l", "e">>
DashSpace == <<"-", " ", "a", ",", "a">>
SortInputs ==
    {Ptr(s) : s \in StringsUpTo(SortAlphabet, MaxSortLen)
                       \cup {YearTitle, BadTitle, DashSpace}}
        \cup {Nil}

\* a caller holding its argument, before the call
InitSort ==
    /\ sortArg \in SortInputs
    /\ sortRet = [called |-> FALSE, cols |-> <<>>, err |-> Nil]

ToSortParams ==
    /\ ~sortRet.called
    /\ sortRet' = [called |-> TRUE,
                   cols   |-> toSortParams(sortArg).cols,
                   err    |-> toSortParams(sortArg).err]
    /\ UNCHANGED <<sortArg, queryVars, pageVars, errVars, wireVars>>

(***************************************************************************)
(* toQueryOptions                                                          *)
(***************************************************************************)
\* the filter fields of GetTracksParams, in the order toQueryOptions parses them
FilterFields ==
    <<"FilterEquals", "FilterContains", "FilterStartsWith", "FilterEndsWith",
      "FilterGreaterThan", "FilterGreaterOrEqual", "FilterLessThan",
      "FilterLessOrEqual">>

\* a GetTracksParams with every pointer nil
NoParams ==
    [FilterEquals |-> Nil, FilterContains |-> Nil, FilterStartsWith |-> Nil,
     FilterEndsWith |-> Nil, FilterGreaterThan |-> Nil,
     FilterGreaterOrEqual |-> Nil, FilterLessThan |-> Nil,
     FilterLessOrEqual |-> Nil, PageOffset |-> Nil, PageLimit |-> Nil,
     Sort |-> Nil, Include |-> Nil]

\* v(p): the pointed-to value, or the zero value of a nil pointer
v(ptr, zero) == IF ptr = Nil THEN zero ELSE Deref(ptr)

\* strings.SplitN(f, ":", 2): at most two parts, cut at the first colon
RECURSIVE SplitN2From(_, _)
SplitN2From(s, before) ==
    IF s = <<>> THEN <<before>>
    ELSE IF Head(s) = ":" THEN <<before, Tail(s)>>
    ELSE SplitN2From(Tail(s), Append(before, Head(s)))

\* a variant that cuts at the last colon
RECURSIVE SplitAtLastFrom(_, _)
SplitAtLastFrom(s, after) ==
    IF s = <<>> THEN <<after>>
    ELSE IF s[Len(s)] = ":" THEN <<SubSeq(s, 1, Len(s) - 1), after>>
    ELSE SplitAtLastFrom(SubSeq(s, 1, Len(s) - 1), <<s[Len(s)]>> \o after)

SplitAtLast(f) == SplitAtLastFrom(f, <<>>)
SplitN2(f) == SplitN2From(f, <<>>)

\* the op closure of each family: the squirrel clause it builds from f and v
Op(family, f, val) ==
    CASE family = "FilterEquals"         -> [sq |-> "Eq", col |-> f, arg |-> val]
      [] family = "FilterContains"       -> [sq |-> "Like", col |-> f, arg |-> <<"%">> \o val \o <<"%">>]
      [] family = "FilterStartsWith"     -> [sq |-> "Like", col |-> f, arg |-> val \o <<"%">>]
      [] family = "FilterEndsWith"       -> [sq |-> "Like", col |-> f, arg |-> <<"%">> \o val]
      [] family = "FilterGreaterThan"    -> [sq |-> "Gt", col |-> f, arg |-> val]
      [] family = "FilterGreaterOrEqual" -> [sq |-> "GtOrEq", col |-> f, arg |-> val]
      [] family = "FilterLessThan"       -> [sq |-> "Lt", col |-> f, arg |-> val]
      [] family = "FilterLessOrEqual"    -> [sq |-> "LtOrEq", col |-> f, arg |-> val]

\* parseFilter's loop over *fs: the clauses appended, and whether parts[1]
\* was read from a one-part split (index out of range: the function panics)
RECURSIVE ParseFilterLoop(_, _, _)
ParseFilterLoop(family, fs, acc) ==
    IF acc.panic \/ fs = <<>> THEN acc
    ELSE LET parts == SplitN2(Head(fs))
         IN  IF Len(parts) < 2
             THEN [acc EXCEPT !.panic = TRUE]
             ELSE ParseFilterLoop(family, Tail(fs),
                      [acc EXCEPT !.filters =
                          Append(@, Op(family, parts[1], parts[2]))])

parseFilter(family, fs, acc) ==
    IF fs = Nil THEN acc ELSE ParseFilterLoop(family, Deref(fs), acc)

\* the eight parseFilter calls, in source order
RECURSIVE ParseFilters(_, _, _)
ParseFilters(params, i, acc) ==
    IF i > Len(FilterFields) THEN acc
    ELSE ParseFilters(params, i + 1,
                      parseFilter(FilterFields[i], params[FilterFields[i]], acc))

toQueryOptions(params) ==
    LET parsed == ParseFilters(params, 1, [filters |-> <<>>, panic |-> FALSE])
        sort   == toSortParams(params.Sort)
    IN  IF parsed.panic
        THEN [called |-> TRUE, panic |-> TRUE, warned |-> FALSE, Max |-> 0,
              Offset |-> 0, Filters |-> <<>>, Sort |-> <<>>]
        ELSE [called |-> TRUE, panic |-> FALSE,
              warned  |-> sort.err # Nil,
              Max     |-> v(params.PageLimit, 0),
              Offset  |-> v(params.PageOffset, 0),
              Filters |-> parsed.filters,
              Sort    |-> sort.cols]

\* the filter tokens the model passes in
FilterAlphabet == {"a", ":"}
ArtistQueen == <<"a", "r", "t", "i", "s", "t", ":", "Q", "u", "e", "e", "n">>
TitleLove   == <<"t", "i", "t", "l", "e", ":", "l", "o", "v", "e">>
TimeValue   == <<"a", "t", ":", "1", "0", ":", "3", "0", ":", "%">>
FilterTokens ==
    StringsUpTo(FilterAlphabet, MaxTokenLen) \cup {ArtistQueen, TitleLove, TimeValue}
CoreTokens == {<<"a", ":", "a">>, <<"a">>, <<":">>, TimeValue}

RECURSIVE ListsUpTo(_, _)
ListsUpTo(elems, n) ==
    IF n = 0 THEN {<<>>}
    ELSE LET shorter == ListsUpTo(elems, n - 1)
         IN  shorter \cup {Append(l, e) : l \in shorter, e \in elems}

SmallSorts == {Nil, Ptr(<<"a">>), Ptr(<<"-", "a">>), Ptr(<<"$">>)}

\* the requests the model passes in: one family with a list of several tokens
\* (and the sort and the page window varied), or two families with one token each
QueryInputs ==
    {[NoParams EXCEPT ![FilterFields[i]] = fs, !.Sort = s,
                      !.PageLimit = pl, !.PageOffset = po] :
        i \in 1..Len(FilterFields),
        fs \in {Nil} \cup {Ptr(l) : l \in ListsUpTo(CoreTokens, MaxFilterVals)},
        s \in SmallSorts, pl \in {Nil, Ptr(10)}, po \in {Nil, Ptr(20)}}
    \cup
    {[NoParams EXCEPT ![FilterFields[i]] = Ptr(<<t>>), ![FilterFields[j]] = Ptr(<<u>>)] :
        i \in 1..Len(FilterFields), j \in 1..Len(FilterFields),
        t \in FilterTokens, u \in FilterTokens}

\* a caller holding its argument, before the call
InitQuery ==
    /\ qParams \in QueryInputs
    /\ qRet = [called |-> FALSE, panic |-> FALSE, warned |-> FALSE, Max |-> 0,
               Offset |-> 0, Filters |-> <<>>, Sort |-> <<>>]

ToQueryOptions ==
    /\ ~qRet.called
    /\ qRet' = toQueryOptions(qParams)
    /\ UNCHANGED <<qParams, sortVars, pageVars, errVars, wireVars>>

(***************************************************************************)
(* buildPaginationLinksAndMeta                                             *)
(***************************************************************************)
\* the largest and the smallest int32
MaxInt32 == 2147483647
MinInt32 == -MaxInt32 - 1

\* int32 addition: the sum modulo 2^32, in [MinInt32, MaxInt32]
Add32(a, b) ==
    IF a >= 0 /\ b >= 0 /\ a > MaxInt32 - b
    THEN (a - MaxInt32 - 1) + (b - MaxInt32 - 1)
    ELSE IF a < 0 /\ b < 0 /\ a < MinInt32 - b
    THEN (a + MaxInt32 + 1) + (b + MaxInt32 + 1)
    ELSE a + b

\* int32 multiplication by b >= 0: the product modulo 2^32
RECURSIVE Mul32(_, _)
Mul32(a, b) ==
    IF b = 0 \/ a = 0 THEN 0
    ELSE LET rest == Mul32(Add32(a, a), b \div 2)
         IN  IF b % 2 = 1 THEN Add32(rest, a) ELSE rest

\* Go's integer division by b > 0: the quotient truncated toward zero
Quo32(a, b) ==
    IF a >= 0 \/ a % b = 0 THEN a \div b ELSE (a \div b) + 1

\* totalPages := (totalItems + pageLimit - 1) / pageLimit
TotalPages(totalItems, pageLimit) ==
    Quo32(Add32(Add32(totalItems, pageLimit), -1), pageLimit)

\* currentPage := pageOffset/pageLimit + 1
CurrentPage(pageOffset, pageLimit) == Add32(Quo32(pageOffset, pageLimit), 1)

DigitChar(d) == <<"0", "1", "2", "3", "4", "5", "6", "7", "8", "9">>[d + 1]

\* strconv.Itoa: the decimal digits, after a '-' for a negative number
RECURSIVE ItoaNat(_)
ItoaNat(n) ==
    IF n < 10 THEN <<DigitChar(n)>>
    ELSE Append(ItoaNat(n \div 10), DigitChar(n % 10))

RECURSIVE ItoaNeg(_)
ItoaNeg(n) ==
    LET d == (10 - (n % 10)) % 10
    IN  IF n > -10 THEN <<DigitChar(d)>>
        ELSE Append(ItoaNeg((n + d) \div 10), DigitChar(d))

Itoa(n) == IF n < 0 THEN <<"-">> \o ItoaNeg(n) ELSE ItoaNat(n)

\* url.QueryEscape: letters, digits and - _ . ~ stay, a space becomes '+',
\* any other byte becomes %XX, on the characters the model draws from
HexOf(c) ==
    CASE c = ":" -> <<"3", "A">>
      [] c = "%" -> <<"2", "5">>
      [] c = "+" -> <<"2", "B">>
      [] c = "&" -> <<"2", "6">>
      [] c = "=" -> <<"3", "D">>
      [] c = "," -> <<"2", "C">>
      [] c = "$" -> <<"2", "4">>

ShouldEscape(c) ==
    c \notin LowerCase \cup UpperCase \cup Digits \cup {"-", "_", ".", "~"}

RECURSIVE QueryEscape(_)
QueryEscape(str) ==
    IF str = <<>> THEN <<>>
    ELSE (IF ~ShouldEscape(Head(str)) THEN <<Head(str)>>
          ELSE IF Head(str) = " " THEN <<"+">>
          ELSE <<"%">> \o HexOf(Head(str)))
         \o QueryEscape(Tail(str))

\* the keys buildLink adds, as url.Values.Encode orders them (sorted by key)
SortedKeys ==
    <<"filter[contains]", "filter[endsWith]", "filter[equals]",
      "filter[greaterOrEqual]", "filter[greaterThan]", "filter[lessOrEqual]",
      "filter[lessThan]", "filter[startsWith]", "include", "page[limit]",
      "page[offset]", "sort">>

\* url.Values{}: no key holds a value
EmptyValues == [k \in {SortedKeys[i] : i \in 1..Len(SortedKeys)} |-> <<>>]

\* query.Add(key, value)
Add(query, key, value) == [query EXCEPT ![key] = Append(@, value)]

\* addFilterParams' loop over *values
RECURSIVE AddAll(_, _, _)
AddAll(query, paramName, values) ==
    IF values = <<>> THEN query
    ELSE AddAll(Add(query, paramName, Head(values)), paramName, Tail(values))

\* a variant that adds only the first value of a list
AddFirstOnly(query, paramName, values) ==
    IF values = Nil \/ Deref(values) = <<>> THEN query
    ELSE Add(query, paramName, Head(Deref(values)))
\* addFilterParams(paramName, values)
addFilterParams(query, paramName, values) ==
    IF values = Nil THEN query ELSE AddAll(query, paramName, Deref(values))

\* query.Encode(): key=value pairs, keys sorted, a key's values in the order
\* they were added, the values escaped; the pairs are what '&' joins
RECURSIVE EncodeFrom(_, _)
EncodeFrom(query, i) ==
    IF i > Len(SortedKeys) THEN <<>>
    ELSE [j \in 1..Len(query[SortedKeys[i]]) |->
             [key |-> SortedKeys[i], val |-> QueryEscape(query[SortedKeys[i]][j])]]
         \o EncodeFrom(query, i + 1)

Encode(query) == EncodeFrom(query, 1)

\* the page[offset] a link for a page carries: page * pageLimit
PageOffsetOf(page, pageLimit) == Mul32(page, pageLimit)

\* the buildLink closure: resourceName, '?', and the encoded query
buildLink(page, params, resourceName) ==
    LET pageLimit == Deref(params.PageLimit)
        q1  == Add(EmptyValues, "page[offset]", Itoa(PageOffsetOf(page, pageLimit)))
        q2  == Add(q1, "page[limit]", Itoa(pageLimit))
        q3  == addFilterParams(q2, "filter[equals]", params.FilterEquals)
        q4  == addFilterParams(q3, "filter[contains]", params.FilterContains)
        q5  == addFilterParams(q4, "filter[lessThan]", params.FilterLessThan)
        q6  == addFilterParams(q5, "filter[lessOrEqual]", params.FilterLessOrEqual)
        q7  == addFilterParams(q6, "filter[greaterThan]", params.FilterGreaterThan)
        q8  == addFilterParams(q7, "filter[greaterOrEqual]", params.FilterGreaterOrEqual)
        q9  == addFilterParams(q8, "filter[startsWith]", params.FilterStartsWith)
        q10 == addFilterParams(q9, "filter[endsWith]", params.FilterEndsWith)
        q11 == IF params.Sort # Nil THEN Add(q10, "sort", Deref(params.Sort)) ELSE q10
        q12 == IF params.Include # Nil
               THEN Add(q11, "include", Deref(params.Include)) ELSE q11
    IN  Ptr([path |-> resourceName, query |-> Encode(q12)])

\* a variant that also links past the last page
HasNextInclusive(currentPage, totalPages) == currentPage <= totalPages
\* the condition under which the next link is built
HasNext(currentPage, totalPages) == currentPage < totalPages

\* a variant that builds the first and last links unconditionally
HasPagesAlways(totalPages) == TRUE
\* the condition under which the first and last links are built
HasPages(totalPages) == totalPages > 0

buildPaginationLinksAndMeta(totalItems, params, resourceName) ==
    LET pageLimit   == Deref(params.PageLimit)
        pageOffset  == Deref(params.PageOffset)
        totalPages  == TotalPages(totalItems, pageLimit)
        currentPage == CurrentPage(pageOffset, pageLimit)
    IN  [called |-> TRUE,
         links |->
            [First |-> IF HasPages(totalPages)
                       THEN buildLink(0, params, resourceName) ELSE Nil,
             Last  |-> IF HasPages(totalPages)
                       THEN buildLink(Add32(totalPages, -1), params, resourceName)
                       ELSE Nil,
             Next  |-> IF HasNext(currentPage, totalPages)
                       THEN buildLink(currentPage, params, resourceName) ELSE Nil,
             Prev  |-> IF currentPage > 1
                       THEN buildLink(Add32(currentPage, -2), params, resourceName)
                       ELSE Nil],
         meta |->
            [CurrentPage |-> Ptr(currentPage),
             TotalItems  |-> Ptr(totalItems),
             TotalPages  |-> Ptr(totalPages)]]

\* the counts and page windows the model passes in: the small ones, the ones
\* the documentation names, and the largest an int32 holds
TotalItemsInputs == (0..MaxItems) \cup {25, MaxInt32 - 1, MaxInt32}
PageLimitInputs  == (1..MaxLimit) \cup {10, MaxInt32}
PageOffsetInputs == (0..MaxOffset) \cup {20, MaxInt32}

\* the other parameters of the requests the model passes in
LinkTokens   == {<<"a", ":", "b">>, <<"a", ":", " ", "%", "&", "=">>, <<":", "+">>}
LinkSorts    == {Nil, Ptr(<<"-", "a", ",", "b">>)}
LinkIncludes == {Nil, Ptr(<<"a", ",", "$">>)}
PageParamInputs ==
    {[NoParams EXCEPT ![FilterFields[i]] = fs, !.Sort = s, !.Include = inc] :
        i \in 1..Len(FilterFields),
        fs \in {Nil} \cup {Ptr(l) : l \in ListsUpTo(LinkTokens, MaxLinkVals)},
        s \in LinkSorts, inc \in LinkIncludes}
    \cup
    {[NoParams EXCEPT ![FilterFields[i]] = Ptr(<<t>>), ![FilterFields[j]] = Ptr(<<u>>)] :
        i \in 1..Len(FilterFields), j \in 1..Len(FilterFields),
        t \in LinkTokens, u \in LinkTokens}

ResourceName == <<"t", "r", "a", "c", "k", "s">>

\* a caller holding its arguments, before the call: either the page window
\* varies under a few requests, or the request varies under a few windows
InitPage ==
    /\ pgArgs \in
          {[totalItems |-> n,
            params |-> [p EXCEPT !.PageLimit = Ptr(l), !.PageOffset = Ptr(o)],
            resourceName |-> ResourceName] :
             n \in TotalItemsInputs, l \in PageLimitInputs, o \in PageOffsetInputs,
             p \in {NoParams,
                    [NoParams EXCEPT !.FilterEquals = Ptr(<<<<"a", ":", "b">>>>),
                                     !.Sort = Ptr(<<"-", "a">>)]}}
          \cup
          {[totalItems |-> n,
            params |-> [p EXCEPT !.PageLimit = Ptr(2), !.PageOffset = Ptr(o)],
            resourceName |-> ResourceName] :
             n \in {0, 5}, o \in {0, 2, 4}, p \in PageParamInputs}
    /\ pgRet = [called |-> FALSE,
                links |-> [First |-> Nil, Last |-> Nil, Next |-> Nil, Prev |-> Nil],
                meta |-> [CurrentPage |-> Nil, TotalItems |-> Nil, TotalPages |-> Nil]]

BuildPaginationLinksAndMeta ==
    /\ ~pgRet.called
    /\ pgRet' = buildPaginationLinksAndMeta(pgArgs.totalItems, pgArgs.params,
                                            pgArgs.resourceName)
    /\ UNCHANGED <<pgArgs, sortVars, queryVars, errVars, wireVars>>

(***************************************************************************)
(* apiErrorHandler                                                         *)
(***************************************************************************)
\* net/http's status codes, as apiErrorHandler names them
StatusForbidden           == 403
StatusNotFound            == 404
StatusInternalServerError == 500

\* http.StatusText
StatusText(code) ==
    CASE code = StatusForbidden           -> "Forbidden"
      [] code = StatusNotFound            -> "Not Found"
      [] code = StatusInternalServerError -> "Internal Server Error"

\* an error is its Unwrap chain, outermost first; errors.Is(err, target)
\* finds target anywhere in the chain, and in no chain of a nil error
ErrorsIs(err, target) == \E i \in 1..Len(err) : err[i] = target

\* ErrorObject{Status: p(strconv.Itoa(code)), Title: p(http.StatusText(code))}
ErrorObject(code) == [Status |-> Ptr(Itoa(code)), Title |-> Ptr(StatusText(code))]

\* the switch over the error's category
ErrorObjectFor(err) ==
    IF ErrorsIs(err, "ErrNotAuthorized") THEN ErrorObject(StatusForbidden)
    ELSE IF ErrorsIs(err, "ErrNotFound") THEN ErrorObject(StatusNotFound)
    ELSE ErrorObject(StatusInternalServerError)

\* a variant that writes the status of the error's category
WrittenStatusOfCategory(res) ==
    IF res = ErrorObject(StatusForbidden) THEN StatusForbidden
    ELSE IF res = ErrorObject(StatusNotFound) THEN StatusNotFound
    ELSE StatusInternalServerError
\* the argument of w.WriteHeader
WrittenStatus(res) == 403

\* a ResponseWriter nothing was written to
FreshWriter == [header |-> Nil, code |-> 0, body |-> <<>>]

\* the errors the model passes in: nil, and chains of up to MaxWrap errors
ErrKinds == {"ErrNotAuthorized", "ErrNotFound", "other"}
ErrInputs == ListsUpTo(ErrKinds, MaxWrap)

InitErr == errArg \in ErrInputs /\ w = FreshWriter

\* the handler: the Content-Type header, the status line, the encoded ErrorList
ApiErrorHandler ==
    /\ w.code = 0
    /\ LET res == ErrorObjectFor(errArg)
       IN  w' = [header |-> Ptr("application/vnd.api+json"),
                 code   |-> WrittenStatus(res),
                 body   |-> Append(w.body, [Errors |-> <<res>>])]
    /\ UNCHANGED <<errArg, sortVars, queryVars, pageVars, wireVars>>

(***************************************************************************)
(* GetScanner, GetBroker, GetScheduler                                     *)
(***************************************************************************)
Singletons == {"Scanner", "Broker", "Scheduler"}
Goroutines == 1..NumGoroutines

\* whether the Get function on top of g's stack is at pc
Running(g) == stack[g] # <<>>
Top(g) == stack[g][Len(stack[g])]
At(g, pc) == Running(g) /\ Top(g).pc = pc
Goto(g, pc) == [stack EXCEPT ![g][Len(stack[g])].pc = pc]

InitWire ==
    /\ once = [s \in Singletons |-> [done |-> 0, m |-> 0]]
    /\ instance = [s \in Singletons |-> 0]
    /\ created = [s \in Singletons |-> 0]
    /\ stack = [g \in Goroutines |-> <<>>]
    /\ returned = [s \in Singletons |-> {}]
    /\ calls = [s \in Singletons |-> 0]

TotalCalls == calls["Scanner"] + calls["Broker"] + calls["Scheduler"]

\* a goroutine with nothing running calls one of the three Get functions
Call(g) ==
    /\ ~Running(g)
    /\ TotalCalls < MaxCalls
    /\ \E s \in Singletons :
          /\ calls' = [calls EXCEPT ![s] = @ + 1]
          /\ stack' = [stack EXCEPT ![g] = <<[fn |-> s, pc |-> "Do"]>>]
    /\ UNCHANGED <<once, instance, created, returned, idleVars>>

\* Once.Do: done is loaded; once it is set the function is not run
OnceDo(g) ==
    /\ At(g, "Do")
    /\ stack' = Goto(g, IF once[Top(g).fn].done = 0 THEN "lock" ELSE "return")
    /\ UNCHANGED <<once, instance, created, returned, calls, idleVars>>

\* a variant without mutual exclusion
MutexTakenByAnyone(s) == TRUE
\* the Once's mutex can be taken
MutexFree(s) == once[s].m = 0

\* Once.doSlow: o.m.Lock()
OnceLock(g) ==
    /\ At(g, "lock")
    /\ MutexFree(Top(g).fn)
    /\ once' = [once EXCEPT ![Top(g).fn].m = g]
    /\ stack' = Goto(g, "check")
    /\ UNCHANGED <<instance, created, returned, calls, idleVars>>

\* Once.doSlow: done is loaded again under the mutex; the function is run if
\* it is still unset
OnceCheck(g) ==
    /\ At(g, "check")
    /\ IF once[Top(g).fn].done = 0
       THEN /\ created' = [created EXCEPT ![Top(g).fn] = @ + 1]
            /\ stack' = Goto(g, "create")
       ELSE /\ stack' = Goto(g, "unlock")
            /\ UNCHANGED created
    /\ UNCHANGED <<once, instance, returned, calls, idleVars>>

\* the Get functions among the providers a create function is wired from:
\* createScanner is built from allProviders, which holds GetBroker;
\* createBroker and createScheduler are built from a constructor alone
ProvidersOf(s) == IF s = "Scanner" THEN {"Broker"} ELSE {}

\* createScanner, createBroker, createScheduler: wire calls a provider of the
\* set when a constructor takes its type; the constructors are outside this
\* file, so a provided Get function may be called or not
CreateCallsProvider(g) ==
    /\ At(g, "create")
    /\ \E s \in ProvidersOf(Top(g).fn) :
          stack' = [stack EXCEPT ![g] =
                       Append(Goto(g, "build")[g], [fn |-> s, pc |-> "Do"])]
    /\ UNCHANGED <<once, instance, created, returned, calls, idleVars>>

\* the instance variable is assigned what the create function built
CreateBuilds(g) ==
    /\ At(g, "create") \/ At(g, "build")
    /\ instance' = [instance EXCEPT ![Top(g).fn] = g]
    /\ stack' = Goto(g, "store")
    /\ UNCHANGED <<once, created, returned, calls, idleVars>>

\* Once.doSlow: the deferred o.done.Store(1)
OnceStore(g) ==
    /\ At(g, "store")
    /\ once' = [once EXCEPT ![Top(g).fn].done = 1]
    /\ stack' = Goto(g, "unlock")
    /\ UNCHANGED <<instance, created, returned, calls, idleVars>>

\* Once.doSlow: the deferred o.m.Unlock()
OnceUnlock(g) ==
    /\ At(g, "unlock")
    /\ once' = [once EXCEPT ![Top(g).fn].m = 0]
    /\ stack' = Goto(g, "return")
    /\ UNCHANGED <<instance, created, returned, calls, idleVars>>

\* return scannerInstance (brokerInstance, schedulerInstance)
Return(g) ==
    /\ At(g, "return")
    /\ returned' = [returned EXCEPT ![Top(g).fn] = @ \cup {instance[Top(g).fn]}]
    /\ stack' = [stack EXCEPT ![g] = SubSeq(@, 1, Len(@) - 1)]
    /\ UNCHANGED <<once, instance, created, calls, idleVars>>

NextSort  == ToSortParams
NextQuery == ToQueryOptions
NextPage  == BuildPaginationLinksAndMeta
NextErr   == ApiErrorHandler
NextWire  ==
    \E g \in Goroutines :
        \/ Call(g)
        \/ OnceDo(g)
        \/ OnceLock(g)
        \/ OnceCheck(g)
        \/ CreateCallsProvider(g)
        \/ CreateBuilds(g)
        \/ OnceStore(g)
        \/ OnceUnlock(g)
        \/ Return(g)

SortInit  == InitSort /\ IdleQuery /\ IdlePage /\ IdleErr /\ IdleWire
QueryInit == IdleSort /\ InitQuery /\ IdlePage /\ IdleErr /\ IdleWire
PageInit  == IdleSort /\ IdleQuery /\ InitPage /\ IdleErr /\ IdleWire
ErrInit   == IdleSort /\ IdleQuery /\ IdlePage /\ InitErr /\ IdleWire
WireInit  == IdleSort /\ IdleQuery /\ IdlePage /\ IdleErr /\ InitWire

SpecSort  == SortInit /\ [][NextSort]_vars
SpecQuery == QueryInit /\ [][NextQuery]_vars
SpecPage  == PageInit /\ [][NextPage]_vars
SpecErr   == ErrInit /\ [][NextErr]_vars
SpecWire  == WireInit /\ [][NextWire]_vars

(***************************************************************************)
(* Properties.  What a claim expects is written from the claim's wording,  *)
(* by positions in the string, not by the scanning loops above.            *)
(***************************************************************************)
MinOf(S) == CHOOSE x \in S : \A y \in S : x <= y
MaxOf(S) == CHOOSE x \in S : \A y \in S : x >= y

RECURSIVE Ascending(_)
Ascending(S) ==
    IF S = {} THEN <<>> ELSE <<MinOf(S)>> \o Ascending(S \ {MinOf(S)})

\* the substrings of s between the occurrences of sep, in order
Pieces(s, sep) ==
    LET cuts == Ascending({0, Len(s) + 1} \cup {i \in 1..Len(s) : s[i] = sep})
    IN  [k \in 1..(Len(cuts) - 1) |-> SubSeq(s, cuts[k] + 1, cuts[k + 1] - 1)]

\* t without its leading and trailing whitespace
Stripped(t) ==
    LET solid == {i \in 1..Len(t) : t[i] \notin {" ", "\t"}}
    IN  IF solid = {} THEN <<>> ELSE SubSeq(t, MinOf(solid), MaxOf(solid))

\* the non-empty tokens of a sort string, trimmed, in input order
SortTokens(s) ==
    SelectSeq([k \in 1..Len(Pieces(s, ",")) |-> Stripped(Pieces(s, ",")[k])],
              LAMBDA t : t # <<>>)

RECURSIVE CommaJoined(_)
CommaJoined(entries) ==
    IF entries = <<>> THEN <<>>
    ELSE IF Len(entries) = 1 THEN entries[1]
    ELSE entries[1] \o <<",">> \o CommaJoined(Tail(entries))

Asc  == <<" ", "a", "s", "c">>
Desc == <<" ", "d", "e", "s", "c">>

\* an entry as the claim words it: the remainder is the token text after the '-'
EntryAsClaimed(t) == IF t[1] = "-" THEN Tail(t) \o Desc ELSE t \o Asc
\* an entry with the remainder trimmed of whitespace
EntryTrimmed(t) == IF t[1] = "-" THEN Stripped(Tail(t)) \o Desc ELSE t \o Asc

SortAccepted == sortRet.called /\ sortRet.err = Nil

\* C6 as stated: every accepted sort string yields, comma-joined and in input
\* order, "<token> asc" for a token not beginning with '-' and "<remainder> desc"
\* for one beginning with '-', the remainder being the token text after the '-';
\* an absent or empty sort string yields an empty result and no error.
C6_AsStated ==
    /\ sortRet.called /\ (sortArg = Nil \/ sortArg = Ptr(<<>>))
          => sortRet.cols = <<>> /\ sortRet.err = Nil
    /\ SortAccepted /\ sortArg # Nil
          => sortRet.cols =
                CommaJoined([k \in 1..Len(SortTokens(Deref(sortArg))) |->
                                EntryAsClaimed(SortTokens(Deref(sortArg))[k])])

\* C6 amended: as stated, except that the remainder of a token beginning with
\* '-' is the token text after the '-' trimmed of surrounding whitespace
\* ("- a" yields "a desc"); "-year,title" yields "year desc,title asc".
C6_SortEntries ==
    /\ sortRet.called /\ (sortArg = Nil \/ sortArg = Ptr(<<>>))
          => sortRet.cols = <<>> /\ sortRet.err = Nil
    /\ SortAccepted /\ sortArg # Nil
          => sortRet.cols =
                CommaJoined([k \in 1..Len(SortTokens(Deref(sortArg))) |->
                                EntryTrimmed(SortTokens(Deref(sortArg))[k])])
    /\ sortRet.called /\ sortArg = Ptr(YearTitle)
          => /\ sortRet.err = Nil
             /\ sortRet.cols = <<"y", "e", "a", "r">> \o Desc \o <<",">>
                                  \o <<"t", "i", "t", "l", "e">> \o Asc

\* a descending token with whitespace after its '-', before an ascending one
C6_Witness ==
    /\ sortArg = Ptr(<<"-", " ", "a", ",", "a">>)
    /\ sortRet.called
    /\ sortRet.err = Nil
    /\ sortRet.cols = <<"a">> \o Desc \o <<",">> \o <<"a">> \o Asc

\* the identifier charset [A-Za-z0-9_-]
InCharset(c) == c \in LowerCase \cup UpperCase \cup Digits \cup {"_", "-"}

\* a token the claim calls offending: its first character, or for a token
\* beginning with '-' the character right after the '-', is outside the charset
OffendingAsClaimed(t) ==
    IF t[1] = "-" THEN Len(t) > 1 /\ ~InCharset(t[2]) ELSE ~InCharset(t[1])
\* a token whose first character is outside the charset
OffendingFirstChar(t) == ~InCharset(t[1])

FirstWhere(toks, P(_)) == toks[MinOf({k \in 1..Len(toks) : P(toks[k])})]

SortFailedNaming(t) ==
    /\ sortRet.cols = <<>>
    /\ sortRet.err = Ptr([msg |-> "invalid sort parameter: ", token |-> t])

AllTokensHaveColon ==
    \A i \in 1..Len(FilterFields) :
        qParams[FilterFields[i]] # Nil =>
            \A k \in 1..Len(Deref(qParams[FilterFields[i]])) :
                \E j \in 1..Len(Deref(qParams[FilterFields[i]])[k]) :
                    Deref(qParams[FilterFields[i]])[k][j] = ":"

\* the request's tokens with their families, in the order of the eight families
RECURSIVE TokensFrom(_)
TokensFrom(i) ==
    IF i > Len(FilterFields) THEN <<>>
    ELSE (IF qParams[FilterFields[i]] = Nil THEN <<>>
          ELSE [k \in 1..Len(Deref(qParams[FilterFields[i]])) |->
                   [family |-> FilterFields[i],
                    token  |-> Deref(qParams[FilterFields[i]])[k]]])
         \o TokensFrom(i + 1)

FirstColon(t) == MinOf({j \in 1..Len(t) : t[j] = ":"})
FieldOf(t) == SubSeq(t, 1, FirstColon(t) - 1)
ValueOf(t) == SubSeq(t, FirstColon(t) + 1, Len(t))

\* the operator of a family, and the operand it compares the field with
OperatorOf(family) ==
    CASE family = "FilterEquals" -> "Eq"
      [] family \in {"FilterContains", "FilterStartsWith", "FilterEndsWith"} -> "Like"
      [] family = "FilterGreaterThan" -> "Gt"
      [] family = "FilterGreaterOrEqual" -> "GtOrEq"
      [] family = "FilterLessThan" -> "Lt"
      [] family = "FilterLessOrEqual" -> "LtOrEq"
OperandOf(family, val) ==
    (IF family \in {"FilterContains", "FilterEndsWith"} THEN <<"%">> ELSE <<>>)
    \o val \o
    (IF family \in {"FilterContains", "FilterStartsWith"} THEN <<"%">> ELSE <<>>)

PgLimit      == Deref(pgArgs.params.PageLimit)
PgOffset     == Deref(pgArgs.params.PageOffset)
PgTotalPages == Deref(pgRet.meta.TotalPages)
PgCurrent    == Deref(pgRet.meta.CurrentPage)

\* ceil(a / b) for a >= 0, b > 0
Ceil(a, b) == (a \div b) + (IF a % b = 0 THEN 0 ELSE 1)

\* the character a %XX escape stands for
CharOfHex(h) ==
    CASE h = <<"3", "A">> -> ":"
      [] h = <<"2", "5">> -> "%"
      [] h = <<"2", "B">> -> "+"
      [] h = <<"2", "6">> -> "&"
      [] h = <<"3", "D">> -> "="
      [] h = <<"2", "C">> -> ","
      [] h = <<"2", "4">> -> "$"
      [] OTHER -> "?"

\* url.QueryUnescape
RECURSIVE Unescaped(_)
Unescaped(e) ==
    IF e = <<>> THEN <<>>
    ELSE IF Head(e) = "+" THEN <<" ">> \o Unescaped(Tail(e))
    ELSE IF Head(e) = "%" /\ Len(e) >= 3
    THEN <<CharOfHex(SubSeq(e, 2, 3))>> \o Unescaped(SubSeq(e, 4, Len(e)))
    ELSE <<Head(e)>> \o Unescaped(Tail(e))

DigitValue(c) ==
    CASE c = "0" -> 0 [] c = "1" -> 1 [] c = "2" -> 2 [] c = "3" -> 3
      [] c = "4" -> 4 [] c = "5" -> 5 [] c = "6" -> 6 [] c = "7" -> 7
      [] c = "8" -> 8 [] c = "9" -> 9

\* the number a decimal string denotes
RECURSIVE NumberFrom(_, _, _)
NumberFrom(ds, sign, acc) ==
    IF ds = <<>> THEN acc
    ELSE NumberFrom(Tail(ds), sign, acc * 10 + sign * DigitValue(Head(ds)))

Number(ds) ==
    IF Head(ds) = "-" THEN NumberFrom(Tail(ds), -1, 0) ELSE NumberFrom(ds, 1, 0)

\* the values a link carries under a key, unescaped, in the link's order
ValuesOf(link, key) ==
    LET hits == SelectSeq(Deref(link).query, LAMBDA e : e.key = key)
    IN  [k \in 1..Len(hits) |-> Unescaped(hits[k].val)]

\* a link carries exactly one page[offset], the number n
EncodesOffset(link, n) ==
    /\ Len(ValuesOf(link, "page[offset]")) = 1
    /\ Number(ValuesOf(link, "page[offset]")[1]) = n

EncodesLimit(link, n) ==
    /\ Len(ValuesOf(link, "page[limit]")) = 1
    /\ Number(ValuesOf(link, "page[limit]")[1]) = n

\* C1 as stated: meta.TotalPages is ceil(totalItems / limit) for every
\* totalItems >= 0 and limit > 0 an int32 holds, and meta.TotalItems is the
\* totalItems passed in.
C1_AsStated ==
    pgRet.called
    => /\ PgTotalPages = Ceil(pgArgs.totalItems, PgLimit)
       /\ Deref(pgRet.meta.TotalItems) = pgArgs.totalItems

\* C8 as stated: meta.CurrentPage is floor(offset / limit) + 1, and so at
\* least 1, for every limit > 0 and offset >= 0 an int32 holds.
C8_AsStated ==
    pgRet.called
    => /\ PgCurrent >= 1
       /\ PgCurrent - 1 = PgOffset \div PgLimit

\* C2: the first and last links are both emitted exactly when the computed
\* totalPages is positive; first then carries page[offset]=0, last carries
\* page[offset]=(totalPages-1)*limit, both carry page[limit]=limit; with no
\* items, limit 10 and offset 0 none of the four links is emitted.
C2_FirstLast ==
    pgRet.called
    => /\ (pgRet.links.First # Nil) <=> (PgTotalPages > 0)
       /\ (pgRet.links.Last # Nil) <=> (PgTotalPages > 0)
       /\ pgRet.links.First # Nil
             => /\ EncodesOffset(pgRet.links.First, 0)
                /\ EncodesLimit(pgRet.links.First, PgLimit)
       /\ pgRet.links.Last # Nil
             => /\ EncodesOffset(pgRet.links.Last, (PgTotalPages - 1) * PgLimit)
                /\ EncodesLimit(pgRet.links.Last, PgLimit)
       /\ pgArgs.totalItems = 0 /\ PgLimit = 10 /\ PgOffset = 0
             => pgRet.links = [First |-> Nil, Last |-> Nil, Next |-> Nil, Prev |-> Nil]

\* 25 items in pages of 10: three pages, the last one starting at 20
C2_Witness ==
    /\ pgRet.called
    /\ pgArgs.totalItems = 25 /\ PgLimit = 10 /\ PgOffset = 0
    /\ PgTotalPages = 3
    /\ pgRet.links.First # Nil /\ pgRet.links.Last # Nil
    /\ ValuesOf(pgRet.links.Last, "page[offset]") = << <<"2", "0">> >>
    /\ ValuesOf(pgRet.links.First, "page[offset]") = << <<"0">> >>

\* C3: the next link is emitted exactly when the computed currentPage is below
\* the computed totalPages, and then carries page[offset]=currentPage*limit;
\* the prev link is emitted exactly when currentPage is above 1, and then
\* carries page[offset]=(currentPage-2)*limit.
C3_NextPrev ==
    pgRet.called
    => /\ (pgRet.links.Next # Nil) <=> (PgCurrent < PgTotalPages)
       /\ (pgRet.links.Prev # Nil) <=> (PgCurrent > 1)
       /\ pgRet.links.Next # Nil
             => EncodesOffset(pgRet.links.Next, PgCurrent * PgLimit)
       /\ pgRet.links.Prev # Nil
             => EncodesOffset(pgRet.links.Prev, (PgCurrent - 2) * PgLimit)
       /\ PgCurrent = PgTotalPages => pgRet.links.Next = Nil
       /\ PgCurrent = 1 => pgRet.links.Prev = Nil

\* the middle page of three: both neighbours are linked
C3_Witness ==
    /\ pgRet.called
    /\ pgArgs.totalItems = 5 /\ PgLimit = 2 /\ PgOffset = 3
    /\ PgCurrent = 2 /\ PgTotalPages = 3
    /\ ValuesOf(pgRet.links.Next, "page[offset]") = << <<"4">> >>
    /\ ValuesOf(pgRet.links.Prev, "page[offset]") = << <<"0">> >>

\* the query key of a filter family
KeyOf(family) ==
    CASE family = "FilterEquals"         -> "filter[equals]"
      [] family = "FilterContains"       -> "filter[contains]"
      [] family = "FilterStartsWith"     -> "filter[startsWith]"
      [] family = "FilterEndsWith"       -> "filter[endsWith]"
      [] family = "FilterGreaterThan"    -> "filter[greaterThan]"
      [] family = "FilterGreaterOrEqual" -> "filter[greaterOrEqual]"
      [] family = "FilterLessThan"       -> "filter[lessThan]"
      [] family = "FilterLessOrEqual"    -> "filter[lessOrEqual]"

EmittedLinks ==
    {l \in {pgRet.links.First, pgRet.links.Last, pgRet.links.Next, pgRet.links.Prev} :
        l # Nil}

\* a link's query entries other than page[offset]
WithoutOffset(link) ==
    SelectSeq(Deref(link).query, LAMBDA e : e.key # "page[offset]")

\* a link carries every parameter of the request
CarriesRequest(link) ==
    /\ Deref(link).path = pgArgs.resourceName
    /\ \A i \in 1..Len(FilterFields) :
          ValuesOf(link, KeyOf(FilterFields[i])) =
             (IF pgArgs.params[FilterFields[i]] = Nil THEN <<>>
              ELSE Deref(pgArgs.params[FilterFields[i]]))
    /\ ValuesOf(link, "sort") = pgArgs.params.Sort
    /\ ValuesOf(link, "include") = pgArgs.params.Include

\* C4: every emitted link carries, for each filter family, exactly the values
\* of the request's list, each as its own entry and in list order (none for an
\* absent list), the sort string and the include string as given when present;
\* two links emitted for one request differ only in their page[offset].
C4_LinksCarryRequest ==
    pgRet.called
    => /\ \A l \in EmittedLinks : CarriesRequest(l)
       /\ \A l1 \in EmittedLinks, l2 \in EmittedLinks :
             /\ WithoutOffset(l1) = WithoutOffset(l2)
             /\ Len(ValuesOf(l1, "page[offset]")) = 1

\* a request with two values under one family, characters that need escaping,
\* a sort and an include; all four links are emitted
C4_Witness ==
    /\ pgRet.called
    /\ pgArgs.params.FilterContains =
          Ptr(<< <<"a", ":", " ", "%", "&", "=">>, <<":", "+">> >>)
    /\ pgArgs.params.Sort # Nil /\ pgArgs.params.Include # Nil
    /\ pgRet.links.First # Nil /\ pgRet.links.Last # Nil
    /\ pgRet.links.Prev # Nil /\ pgRet.links.Next # Nil
    /\ pgRet.links.Prev # pgRet.links.Next
    /\ ValuesOf(pgRet.links.Next, "filter[contains]") =
          << <<"a", ":", " ", "%", "&", "=">>, <<":", "+">> >>

(***************************************************************************)
(* Properties of apiErrorHandler.                                          *)
(***************************************************************************)
\* the category of an error: what it is, or wraps
NotAuthorized == \E i \in 1..Len(errArg) : errArg[i] = "ErrNotAuthorized"
NotFound      == ~NotAuthorized /\ \E i \in 1..Len(errArg) : errArg[i] = "ErrNotFound"

\* the body holds one document, with one ErrorObject of this status and title
BodyIs(status, title) ==
    /\ Len(w.body) = 1
    /\ Len(w.body[1].Errors) = 1
    /\ w.body[1].Errors[1] = [Status |-> Ptr(status), Title |-> Ptr(title)]

\* C9: for every error the body holds exactly one ErrorObject, with the status
\* string and title of the error's category (not authorized: 403 Forbidden;
\* not found: 404 Not Found; anything else: 500 Internal Server Error), the
\* content type is application/vnd.api+json, and the status code written is
\* one fixed value (403) whatever the category and the body's status.
C9_ErrorDocument ==
    w.code # 0
    => /\ NotAuthorized => BodyIs(<<"4", "0", "3">>, "Forbidden")
       /\ NotFound => BodyIs(<<"4", "0", "4">>, "Not Found")
       /\ ~NotAuthorized /\ ~NotFound
             => BodyIs(<<"5", "0", "0">>, "Internal Server Error")
       /\ w.header = Ptr("application/vnd.api+json")
       /\ w.code = 403

\* a wrapped not-found error: the body says 404, the status line 403
C9_Witness ==
    /\ errArg = <<"other", "ErrNotFound">>
    /\ BodyIs(<<"4", "0", "4">>, "Not Found")
    /\ w.code = 403

(***************************************************************************)
(* Properties of the singleton providers.                                  *)
(***************************************************************************)
\* the create function ran at most once, no call has returned nil (a call
\* that returns does so after the creation has finished), and all calls that
\* returned got the instance the variable holds
SingletonOf(s) ==
    /\ created[s] <= 1
    /\ 0 \notin returned[s]
    /\ returned[s] \subseteq {instance[s]}
    /\ \A g \in Goroutines :
          \A k \in 1..Len(stack[g]) :
             stack[g][k].fn = s /\ stack[g][k].pc = "return"
                => once[s].done = 1 /\ instance[s] # 0

====
